---------------------------- MODULE Spec2Model ----------------------------
(***************************************************************************)
(* Verification model of the spatially-weighted regression engine of      *)
(* spateo/tools/ST_regression (SWR.py, SWR_mpi.py).                        *)
(*                                                                         *)
(*   SpecSearch : SWR.find_optimal_bw, one action per loop iteration.      *)
(*   SpecRun    : the command-line driver (SWR.fit, then                   *)
(*                SWR.predict_and_save) on every rank, with the output     *)
(*                directory as shared state.                               *)
(*                                                                         *)
(* Bandwidths and scores are fixed-point numbers in units of 1/Scale.      *)
(***************************************************************************)
EXTENDS Integers, Sequences, FiniteSets, TLC

VARIABLES
    \* ---- find_optimal_bw (SpecSearch) ----
    bw_fixed,      \* self.bw_fixed: TRUE = distance bandwidth, FALSE = neighbour count
    scoreFn,       \* the scoring function handed to find_optimal_bw
    sargs,         \* <<range_lowest, range_highest>> as passed by the caller
    st,            \* the local variables of find_optimal_bw on rank 0
    sphase,        \* "idle" | "loop" | "returned"
    fol            \* the local variables of find_optimal_bw on another rank

searchVars == <<bw_fixed, scoreFn, sargs, st, sphase, fol>>

VARIABLES
    \* ---- the driver run (SpecRun) ----
    n_ranks,       \* comm.size
    targets,       \* y_arr.columns: the target labels, in order
    bw_given,      \* self.bw is not None
    distr,         \* self.distr
    subsampled,    \* self.subsampled (the -subsample flag)
    coords,        \* self.coords
    set_up,        \* self.set_up on the coordinator
    sub,           \* per target: the sampled samples, in sampled_df order
    neighboring_unsampled,  \* self.neighboring_unsampled, keyed by label
    pc,            \* per rank: where the rank is in the driver
    tgt,           \* per rank: position of the fit loop in y_arr.columns
    gbuf,          \* per rank: rows sent to the pending gather of a final pass
    searched,      \* per target: outcome of the bandwidth search, once broadcast
    files,         \* the output directory: file name -> content
    fileops,       \* every write and deletion done in the output directory
    finals,        \* per rank: the targets whose final pass the rank has run
    fitted,        \* per target: fitted value recorded by the final pass, per sample
    pred           \* per rank: what predict_and_save produced

runConf == <<n_ranks, targets, bw_given, distr, subsampled, coords>>

runVars == <<runConf, set_up, sub, neighboring_unsampled, pc, tgt, gbuf, searched,
             files, fileops, finals, fitted, pred>>

VARIABLES
    \* ---- multiscale_backfitting of one target (SpecBackfit) ----
    curves,        \* the score curves the bandwidth searches of the run meet
    bf,            \* the locals of the round loop of multiscale_backfitting
    bphase,        \* "idle" | "features" | "round_end" | "stored"
    stored,        \* what the model keeps for the target when backfitting ends
    blog,          \* what happened: per round the bandwidths before, used and after
    rs             \* the predictions and the residual of the round loop at one sample

mgwrVars == <<curves, bf, bphase, stored, blog, rs>>

VARIABLES
    \* ---- configuration and the start of fit() (SpecConfig) ----
    conf,          \* the arguments: kernel, exclude_self, minbw, maxbw, and the
                   \* default of exclude_self in get_wi
    cst            \* per rank the position, the search range, the weight vectors computed

confVars == <<conf, cst>>

VARIABLES
    \* ---- evaluations of compute_aicc_linear (SpecAicc) ----
    aq             \* RSS, n_samples, and the last two evaluations with their trace_hat

aiccVars == <<aq>>

VARIABLES
    ps,             \* one pass of mpi_fit over the chunks of the ranks
    ms              \* the input arrays over the targets of a multiscale run

passVars == <<ps, ms>>

auxVars == <<mgwrVars, confVars, aiccVars, passVars>>

vars == <<searchVars, runVars, auxVars>>

-----------------------------------------------------------------------------
(* Numbers *)

\* 1.0 in fixed-point units
Scale == 100000

\* np.nan as a score; outside the range of every score and score difference
NaN == -2000000000

\* Python's None as a bandwidth
None == -1

\* delta = 0.38197 (times Scale)
delta == 38197

\* self.tolerance, default 1e-3 (times Scale)
tolerance == 100

\* difference = 1.0e9 before the first iteration
difference_init == 1000000000

\* `patience < 3` in the loop condition of find_optimal_bw
patience_limit == 3

\* self.max_iter (500 by default), bounded here
max_iter == 5

\* the largest slope of a synthetic unimodal scoring function
MaxSlope == 2

Abs(x) == IF x < 0 THEN -x ELSE x

isnan(x) == x = NaN

\* delta * d for a fixed-point d >= 0; exact when d is a whole number
MulDelta(d) ==
    (d \div Scale) * delta
      + (((d % Scale) \div 1000) * delta) \div 100
      + ((d % 1000) * delta) \div Scale

\* np.round on a fixed-point number (no exact .5 arises from delta * integer)
Round(x) == ((x + Scale \div 2) \div Scale) * Scale

\* a <= b and a < b on floats: False as soon as one side is NaN
FLeq(a, b) == ~isnan(a) /\ ~isnan(b) /\ a <= b

FLt(a, b) == ~isnan(a) /\ ~isnan(b) /\ a < b

\* lb_score - ub_score on floats
FSub(a, b) == IF isnan(a) \/ isnan(b) THEN NaN ELSE a - b

SeqMin(s) == CHOOSE m \in {s[i] : i \in DOMAIN s} : \A i \in DOMAIN s : m <= s[i]

\* an assignment results_dict[k] = v that stores nothing
DictPut_forgetting(d, k, v) == d

\* results_dict[k] = v
DictPut(d, k, v) == [x \in DOMAIN d \cup {k} |-> IF x = k THEN v ELSE d[x]]

-----------------------------------------------------------------------------
(* Scoring functions *)

\* Scores a free scoring function may return at a bandwidth (times Scale):
\* NaN, and values that are equal, exactly `tolerance` apart, and further apart.
ScoreVals == {NaN, 0, tolerance, 2 * tolerance, 5 * tolerance}

\* The known minimum of the synthetic unimodal scoring function
UniMin == 37

\* kind "unimodal": left * (37 - bw) below 37, right * (bw - 37) above, and NaN
\*                  below nan_below (a singular fit at a too small bandwidth);
\* kind "free":     any value of ScoreVals at each evaluated bandwidth.
ScoreFns ==
    [kind : {"unimodal"}, left : 1..MaxSlope, right : 1..MaxSlope, nan_below : {0}]
      \cup [kind : {"free"}, left : {0}, right : {0}, nan_below : {0}]

UnimodalScore(fn, bw) ==
    IF bw < fn.nan_below * Scale THEN NaN
    ELSE IF bw <= UniMin * Scale THEN fn.left * (UniMin * Scale - bw)
    ELSE fn.right * (bw - UniMin * Scale)

\* what function(bw) can return
EvalSet(fn, bw) == IF fn.kind = "free" THEN ScoreVals ELSE {UnimodalScore(fn, bw)}

-----------------------------------------------------------------------------
(* SWR.find_optimal_bw *)

\* lines 1329-1339: the locals before the loop
search_init(range_lowest, range_highest) ==
    [range_lowest  |-> range_lowest,
     range_highest |-> range_highest,
     new_lb        |-> range_lowest + MulDelta(Abs(range_highest - range_lowest)),
     new_ub        |-> range_highest - MulDelta(Abs(range_highest - range_lowest)),
     lb_score      |-> NaN,
     ub_score      |-> NaN,
     score         |-> NaN,
     optimum_bw    |-> None,
     difference    |-> difference_init,
     iterations    |-> 0,
     patience      |-> 0,
     optimum_score_history |-> <<>>,
     results_dict  |-> <<>>,
     n_calls       |-> 0,
     nan_return    |-> FALSE]

\* the loop condition of line 1341 without its iteration cap
loop_cond_uncapped(s) ==
    /\ Abs(s.difference) > tolerance
    /\ s.patience < patience_limit

\* line 1341: the loop condition
loop_cond(s) ==
    /\ Abs(s.difference) > tolerance
    /\ s.iterations < max_iter
    /\ s.patience < patience_limit

\* lines 1345-1347: the probes of this iteration
probe_lb(s, fixed) == IF fixed THEN s.new_lb ELSE Round(s.new_lb)

probe_ub(s, fixed) == IF fixed THEN s.new_ub ELSE Round(s.new_ub)

\* the comparison of line 1365 turned round: the probe with the higher score wins
lower_wins_reversed(lb_score, ub_score) == FLeq(ub_score, lb_score) \/ isnan(ub_score)

\* lines 1365 and 1376: which probe becomes the optimum
lower_wins(lb_score, ub_score) == FLeq(lb_score, ub_score) \/ isnan(ub_score)

\* lines 1399-1403: the patience counter, given the history with this iteration's
\* optimum appended
next_patience(s, hist, iterations) ==
    IF iterations >= 2
    THEN IF hist[Len(hist) - 1] = SeqMin(hist) THEN s.patience + 1 ELSE 0
    ELSE s.patience

\* lines 1342-1409: one iteration on the coordinator; f_lb and f_ub are what
\* function(new_lb) and function(new_ub) return if they are called
search_iter(s, f_lb, f_ub, fixed) ==
    LET iterations == s.iterations + 1
        lb == probe_lb(s, fixed)
        ub == probe_ub(s, fixed)
        lb_hit == lb \in DOMAIN s.results_dict
        lb_score == IF lb_hit THEN s.results_dict[lb] ELSE f_lb
        d1 == IF lb_hit THEN s.results_dict ELSE DictPut(s.results_dict, lb, lb_score)
        ub_hit == ub \in DOMAIN d1
        ub_score == IF ub_hit THEN d1[ub] ELSE f_ub
        d2 == IF ub_hit THEN d1 ELSE DictPut(d1, ub, ub_score)
        calls == s.n_calls + (IF lb_hit THEN 0 ELSE 1) + (IF ub_hit THEN 0 ELSE 1)
        low == lower_wins(lb_score, ub_score)
        optimum_score == IF low THEN lb_score ELSE ub_score
        optimum_bw == IF low THEN lb ELSE ub
        range_highest == IF low THEN ub ELSE s.range_highest
        range_lowest == IF low THEN s.range_lowest ELSE lb
        new_ub == IF low THEN lb ELSE range_highest - MulDelta(Abs(range_highest - range_lowest))
        new_lb == IF low THEN range_lowest + MulDelta(Abs(range_highest - range_lowest)) ELSE ub
        difference == FSub(lb_score, ub_score)
        base == [s EXCEPT !.iterations = iterations,
                          !.results_dict = d2,
                          !.n_calls = calls,
                          !.lb_score = lb_score,
                          !.ub_score = ub_score,
                          !.optimum_bw = optimum_bw,
                          !.range_highest = range_highest,
                          !.range_lowest = range_lowest,
                          !.new_ub = new_ub,
                          !.new_lb = new_lb,
                          !.difference = difference]
        hist == Append(s.optimum_score_history, optimum_score)
    IN  IF isnan(lb_score) \/ isnan(ub_score)
        THEN [base EXCEPT !.nan_return = TRUE]
        ELSE [base EXCEPT !.score = optimum_score,
                          !.optimum_score_history = hist,
                          !.patience = next_patience(s, hist, iterations)]

-----------------------------------------------------------------------------
(* find_optimal_bw on a rank other than 0 *)

\* lines 1329-1339 on another rank
follow_init(range_lowest, range_highest) ==
    [new_lb     |-> range_lowest + MulDelta(Abs(range_highest - range_lowest)),
     new_ub     |-> range_highest - MulDelta(Abs(range_highest - range_lowest)),
     optimum_bw |-> None,
     difference |-> difference_init,
     iterations |-> 0,
     patience   |-> 0,
     keys       |-> {},
     phase      |-> "loop"]

\* lines 1342-1409 on another rank, alongside the iteration of rank 0 that ends
\* in s: the block of lines 1363-1403 is skipped, patience stays as it is, and
\* the five values of lines 1405-1409 arrive by broadcast; when rank 0 returns
\* on a NaN (line 1393) these broadcasts are never matched
follow_iter(f, s, fixed) ==
    LET base == [f EXCEPT !.iterations = f.iterations + 1,
                          !.keys = f.keys \cup {probe_lb(f, fixed), probe_ub(f, fixed)}]
    IN  IF s.nan_return
        THEN [base EXCEPT !.new_lb = probe_lb(f, fixed),
                          !.new_ub = probe_ub(f, fixed),
                          !.phase = "bcast_wait"]
        ELSE [base EXCEPT !.new_lb = s.new_lb,
                          !.new_ub = s.new_ub,
                          !.difference = s.difference,
                          !.optimum_bw = s.optimum_bw]

\* lines 1342-1361 on another rank once rank 0 has left the loop: the rank
\* waits in the gather of function(bw) for a new probe, else in the broadcast
\* of line 1405
follow_alone(f, fixed) ==
    [f EXCEPT !.iterations = f.iterations + 1,
              !.new_lb = probe_lb(f, fixed),
              !.new_ub = probe_ub(f, fixed),
              !.phase = IF {probe_lb(f, fixed), probe_ub(f, fixed)} \subseteq f.keys
                        THEN "bcast_wait" ELSE "function_wait"]

-----------------------------------------------------------------------------
(* find_optimal_bw as one call: the loop run to its end for a scoring function *)

RECURSIVE search_run(_, _, _)
search_run(s, fn, fixed) ==
    IF s.nan_return \/ ~loop_cond(s) THEN s
    ELSE search_run(search_iter(s,
                                UnimodalScore(fn, probe_lb(s, fixed)),
                                UnimodalScore(fn, probe_ub(s, fixed)),
                                fixed),
                    fn, fixed)

\* find_optimal_bw(range_lowest, range_highest, function)
find_optimal_bw(range_lowest, range_highest, fn, fixed) ==
    search_run(search_init(range_lowest, range_highest), fn, fixed)

-----------------------------------------------------------------------------
(* Data of a run *)

\* self.n_samples
n_samples == 3

\* self.n_features: the intercept and one predictor
n_features == 2

\* the largest number of target columns and of ranks
MaxTargets == 2

MaxRanks == 2

Samples == 0..(n_samples - 1)

Ranks == 0..(n_ranks - 1)

\* self.feature_names
feature_names == [j \in 1..n_features |-> IF j = 1 THEN "intercept" ELSE "x"]

\* target labels: strings as sequences of characters
Labels == {<<"x">>, <<"y">>, <<"a", "_", "x">>}

\* self.output_path = "./output/stgwr_results.csv": stem and extension of the
\* file name, shortened to "s_r" + ".csv"
path_stem == <<"s", "_", "r">>

path_ext == <<".", "c", "s", "v">>

\* "predictions.csv", shortened to "p" + ".csv"
pred_name == <<"p", "r", "e", "d", "i", "c", "t", "i", "o", "n", "s", ".", "c", "s", "v">>

\* the sample layouts tried (coordinates on a line, second coordinate 0):
\* equally spaced, and with the middle sample nearer to the first
CoordLayouts == {[i \in Samples |-> <<2 * i, 0>>], [i \in Samples |-> <<i * i, 0>>]}

\* squared Euclidean distance, which orders points as cdist(..., "euclidean") does
Dist2(a, b) == (a[1] - b[1]) * (a[1] - b[1]) + (a[2] - b[2]) * (a[2] - b[2])

\* a value of the tables: kind, target position, sample, feature
Tok(kind, k, i, j) == [kind |-> kind, t |-> k, i |-> i, j |-> j]

\* fill_value=0 of reindex
Zero(j) == Tok("zero", 0, 0, j)

\* np.sum(input * coeffs, axis=1) for one row: the row of sample i of the input
\* times one coefficient vector
RowSum(i, coef) == [x |-> i, c |-> coef, link |-> "identity"]

\* self.distr_obj.predict: the inverse link of the family (identity for Gaussian)
distr_predict(d, v) == IF d = "gaussian" THEN v ELSE [v EXCEPT !.link = "inverse"]

\* the ascending sequence of a set of numbers
RECURSIVE SortedSeq(_)
SortedSeq(S) ==
    IF S = {} THEN <<>>
    ELSE LET m == CHOOSE x \in S : \A y \in S : x <= y
         IN  <<m>> \o SortedSeq(S \ {m})

SeqRange(q) == {q[i] : i \in DOMAIN q}

\* sequences without repetition over a set
Perms(S) == {q \in UNION {[1..n -> S] : n \in 1..Cardinality(S)} :
               \A a, b \in DOMAIN q : a # b => q[a] # q[b]}

\* a floor in place of the ceiling
chunk_size_floor(n, size) == n \div size

\* chunk_size = ceil(n / comm.size); arange(n)[rank*chunk_size : (rank+1)*chunk_size]
chunk_size(n, size) == (n + size - 1) \div size

x_chunk(n, rank, size) ==
    SortedSeq({i \in 0..(n - 1) :
                 rank * chunk_size(n, size) <= i /\ i < (rank + 1) * chunk_size(n, size)})

-----------------------------------------------------------------------------
(* SWR.run_subsample, lines 1024-1041 *)

\* np.argmin(distances, axis=1)[i]: the first nearest sampled point of sample i
closest_index(crd, sampled, i) ==
    CHOOSE a \in DOMAIN sampled :
        \A b \in DOMAIN sampled :
            \/ Dist2(crd[i], crd[sampled[a]]) < Dist2(crd[i], crd[sampled[b]])
            \/ Dist2(crd[i], crd[sampled[a]]) = Dist2(crd[i], crd[sampled[b]]) /\ a <= b

\* closest_dict: sampled point -> the samples outside the subsample nearest to it
closest_dict(crd, sampled) ==
    [key \in {sampled[closest_index(crd, sampled, i)] : i \in Samples} |->
        SortedSeq({i \in Samples : /\ sampled[closest_index(crd, sampled, i)] = key
                                   /\ i \notin SeqRange(sampled)})]

-----------------------------------------------------------------------------
(* Result files *)

\* lines 1889-1892: the path of a target's table
result_path(label) == path_stem \o <<"_">> \o label \o path_ext

\* file.split("_")[-1]
RECURSIVE after_last_underscore(_)
after_last_underscore(name) ==
    IF \E p \in DOMAIN name : name[p] = "_"
    THEN LET p == CHOOSE q \in DOMAIN name : name[q] = "_"
         IN  after_last_underscore(SubSeq(name, p + 1, Len(name)))
    ELSE name

\* line 1921: target = file.split("_")[-1][:-4]
file_target(name) ==
    LET t == after_last_underscore(name)
    IN  SubSeq(t, 1, Len(t) - 4)

\* lines 1513-1521 and 1557-1563: the header of a single-scale table
header_of(d) ==
    <<[pre |-> "index", feat |-> ""],
      [pre |-> IF d = "gaussian" THEN "residual" ELSE "prediction", feat |-> ""],
      [pre |-> "influence", feat |-> ""]>>
      \o [j \in 1..n_features |-> [pre |-> "b_", feat |-> feature_names[j]]]
      \o (IF d = "gaussian"
          THEN [j \in 1..n_features |-> [pre |-> "se_", feat |-> feature_names[j]]]
          ELSE <<>>)

\* lines 1302-1308: the row local_fit returns in a final pass for target k and
\* sample i: name, diagnostic, hat value, coefficients, and for Gaussian the
\* squared singular values
local_fit_row(d, k, i) ==
    <<Tok("name", 0, i, 0),
      Tok(IF d = "gaussian" THEN "residual" ELSE "prediction", k, i, 0),
      Tok("hat", k, i, 0)>>
      \o [j \in 1..n_features |-> Tok("beta", k, i, j)]
      \o (IF d = "gaussian" THEN [j \in 1..n_features |-> Tok("lvg", k, i, j)] ELSE <<>>)

\* line 1510: the last n_features columns become standard errors (Gaussian)
scale_leverages(d, row) ==
    IF d = "gaussian"
    THEN [p \in DOMAIN row |->
            IF p > Len(row) - n_features THEN [row[p] EXCEPT !.kind = "se"] ELSE row[p]]
    ELSE row

\* the coefficient vector local_fit found for target k at sample i
betas_of(k, i) == [j \in 1..n_features |-> Tok("beta", k, i, j)]

\* lines 1880-1887: every file of the output directory is removed
cleared(fs) == [name \in {} |-> 0]

\* lines 1863-1896: the directory after save_results(data, header, label) on
\* `rank`: the directory is cleared by whoever calls, the table is written on
\* rank 0 only (line 1894)
save_results(fs, data, header, label, rank) ==
    IF rank = 0
    THEN DictPut(cleared(fs), result_path(label), [header |-> header, rows |-> data])
    ELSE cleared(fs)

\* the file operations of that call
save_ops(fs, label, rank) ==
    {[rank |-> rank, op |-> "delete", name |-> name] : name \in DOMAIN fs}
      \cup (IF rank = 0
            THEN {[rank |-> rank, op |-> "write", name |-> result_path(label)]}
            ELSE {})

-----------------------------------------------------------------------------
(* SWR.return_outputs and SWR.predict *)

\* line 1923: the positions of the columns whose name starts with "b_"
b_columns(header) == SortedSeq({p \in DOMAIN header : header[p].pre = "b_"})

\* lines 1922-1923: betas, indexed by the first column of the table
file_betas(c) ==
    LET bp == b_columns(c.header)
    IN  [i \in {c.rows[r][1].i : r \in DOMAIN c.rows} |->
            LET r == CHOOSE q \in DOMAIN c.rows : c.rows[q][1].i = i
            IN  [q \in DOMAIN bp |-> c.rows[r][bp[q]]]]

\* line 1929: betas.reindex(self.X_df.index, fill_value=0)
reindexed(fb, width) ==
    [i \in Samples |-> IF i \in DOMAIN fb THEN fb[i] ELSE [q \in 1..width |-> Zero(q)]]

\* lines 1928-1932: coefficients extended to the samples outside the subsample
extended(fb, width, map) ==
    LET re == reindexed(fb, width)
    IN  [i \in Samples |->
            IF \E key \in DOMAIN map : i \in SeqRange(map[key])
            THEN re[CHOOSE key \in DOMAIN map : i \in SeqRange(map[key])]
            ELSE re[i]]

\* lines 1914-1937: return_outputs() on the directory fs;
\* self.neighboring_unsampled[target] raises KeyError for an unknown label
return_outputs(fs, is_sub, nu) ==
    LET found == {file_target(name) : name \in DOMAIN fs}
        file_of(t) == CHOOSE name \in DOMAIN fs : file_target(name) = t
    IN  IF is_sub /\ \E t \in found : t \notin DOMAIN nu
        THEN [status |-> "KeyError", coeffs |-> <<>>]
        ELSE [status |-> "ok",
              coeffs |-> [t \in found |->
                  LET c == fs[file_of(t)]
                      fb == file_betas(c)
                  IN  IF is_sub
                      THEN extended(fb, Len(b_columns(c.header)), nu[t])
                      ELSE fb]]

\* lines 1743-1782: predict(input=None, coeffs=None); label_sub gives
\* self.subsampled_indices by label
predict(fs, is_sub, nu, label_sub, d) ==
    LET out == return_outputs(fs, is_sub, nu)
        co == out.coeffs
    IN  IF out.status # "ok" THEN [status |-> out.status, table |-> <<>>]
        ELSE IF DOMAIN co = {} THEN [status |-> "ok", table |-> <<>>]
        ELSE IF ~is_sub
        \* line 1772: `input` is still None when the subsampling branch is skipped
        THEN [status |-> "AttributeError", table |-> <<>>]
        ELSE IF \E t \in DOMAIN co : Len(label_sub[t]) # Cardinality(DOMAIN co[t])
        THEN [status |-> "ValueError", table |-> <<>>]
        ELSE [status |-> "ok",
              table |-> [t \in DOMAIN co |->
                  [i \in Samples |->
                      distr_predict(d, RowSum(label_sub[t][i + 1], co[t][i]))]]]

\* line 1912: what y_pred.to_csv leaves in predictions.csv
predictions_file(table) ==
    [header |-> <<[pre |-> "index", feat |-> ""]>>
                  \o [q \in 1..Cardinality(DOMAIN table) |-> [pre |-> "target", feat |-> ""]],
     rows |-> [q \in 1..n_samples |-> <<Tok("name", 0, q - 1, 0)>>]]

-----------------------------------------------------------------------------
(* SWR.fit and the driver of SWR_mpi.py, rank by rank *)

\* the scoring functions of a run: flat (the probes tie at once), unimodal, and
\* unimodal with NaN below a bandwidth of 50 or at every bandwidth
RunScoreFns ==
    {[kind |-> "unimodal", left |-> 0, right |-> 0, nan_below |-> 0],
     [kind |-> "unimodal", left |-> 1, right |-> 1, nan_below |-> 0],
     [kind |-> "unimodal", left |-> 1, right |-> 1, nan_below |-> 50],
     [kind |-> "unimodal", left |-> 1, right |-> 1, nan_below |-> 101]}

\* position of a label in y_arr.columns
target_index(label) == CHOOSE k \in DOMAIN targets : targets[k] = label

\* self.subsampled_indices keyed by label
label_sub == [label \in SeqRange(targets) |-> sub[target_index(label)]]

NoGather == [full |-> FALSE, k |-> 0, rows |-> <<>>]

NoSearch == [done |-> FALSE, bw |-> None, sync |-> TRUE, exit |-> "none"]

NoPred == [status |-> "none", table |-> <<>>]

\* lines 1124-1152: the search range of _set_search_range without an AnnData
\* object (fixed point), for collinear samples
max_dist == CHOOSE d \in {Abs(coords[a][1] - coords[b][1]) : a, b \in Samples} :
                \A a, b \in Samples : Abs(coords[a][1] - coords[b][1]) <= d

min_dist == CHOOSE d \in {Abs(coords[x[1]][1] - coords[x[2]][1]) :
                               x \in {y \in Samples \X Samples : y[1] # y[2]}} :
                \A a, b \in Samples : a # b => d <= Abs(coords[a][1] - coords[b][1])

search_range(fixed) ==
    IF fixed THEN <<(min_dist * Scale) \div 2, max_dist * 2 * Scale>>
    ELSE <<5 * Scale, 100 * Scale>>

\* line 1732: round(optimal_bw, 2) in fixed mode
round2(bw) == ((bw + Scale \div 200) \div (Scale \div 100)) * (Scale \div 100)

\* why the loop of find_optimal_bw ended on the coordinator
exit_cause(s) ==
    IF s.nan_return THEN "nan"
    ELSE IF Abs(s.difference) <= tolerance THEN "tolerance"
    ELSE IF s.iterations >= max_iter THEN "max_iter"
    ELSE "patience"

\* lines 1405-1409: difference is broadcast and iterations is counted alike on
\* every rank, patience is not broadcast and a NaN return skips the broadcasts:
\* whether the other ranks leave the loop together with the coordinator
ranks_leave_together(s) ==
    ~s.nan_return /\ (Abs(s.difference) <= tolerance \/ s.iterations >= max_iter)

\* where mpi_fit(final=True) returns to in fit: line 1710 returns from fit, line
\* 1739 goes on to the next column
AfterFinal(r) ==
    IF bw_given
    THEN /\ pc' = [pc EXCEPT ![r] = "predict"]
         /\ tgt' = tgt
    ELSE /\ pc' = [pc EXCEPT ![r] = "fit"]
         /\ tgt' = [tgt EXCEPT ![r] = tgt[r] + 1]

\* lines 164-245 on the coordinator: _set_up_model, with run_subsample drawing
\* the subsample of every target
SetUpRoot ==
    /\ pc[0] = "setup"
    /\ IF subsampled
       THEN /\ sub' \in [DOMAIN targets -> Perms(Samples)]
            /\ neighboring_unsampled' =
                 [label \in SeqRange(targets) |->
                     closest_dict(coords, sub'[target_index(label)])]
       ELSE /\ sub' = [k \in DOMAIN targets |-> SortedSeq(Samples)]
            /\ neighboring_unsampled' = neighboring_unsampled
    /\ set_up' = TRUE
    /\ pc' = [pc EXCEPT ![0] = "fit"]
    /\ UNCHANGED <<searchVars, auxVars, runConf, tgt, gbuf, searched, files, fileops, finals,
                   fitted, pred>>

\* lines 211-245 and 1046-1051 on another rank: the broadcasts of the set-up
SetUpFollow(r) ==
    /\ r # 0
    /\ pc[r] = "setup"
    /\ set_up
    /\ pc' = [pc EXCEPT ![r] = "fit"]
    /\ UNCHANGED <<searchVars, auxVars, runConf, set_up, sub, neighboring_unsampled, tgt, gbuf,
                   searched, files, fileops, finals, fitted, pred>>

\* lines 1683-1716: the head of the loop over y_arr.columns, and line 1741
FitLoop(r) ==
    /\ pc[r] = "fit"
    \* line 1685: another rank receives y of the column from rank 0
    /\ (r # 0 /\ tgt[r] <= Len(targets)) =>
          (tgt[0] > tgt[r] \/ (tgt[0] = tgt[r] /\ pc[0] \notin {"setup", "fit"}))
    /\ pc' = [pc EXCEPT ![r] = IF tgt[r] > Len(targets) THEN "predict"
                               ELSE IF bw_given THEN "final"
                               ELSE "search"]
    /\ UNCHANGED <<searchVars, auxVars, runConf, set_up, sub, neighboring_unsampled, tgt, gbuf,
                   searched, files, fileops, finals, fitted, pred>>

\* lines 1717-1732 on the coordinator: the search range and find_optimal_bw; each
\* scoring pass gathers from every rank, so every rank is in the search
SearchRoot ==
    /\ pc[0] = "search"
    /\ \A r \in Ranks : pc[r] = "search" /\ tgt[r] = tgt[0]
    /\ LET rng == search_range(bw_fixed)
           s == find_optimal_bw(rng[1], rng[2], scoreFn, bw_fixed)
       IN  searched' = [searched EXCEPT ![tgt[0]] =
                           [done |-> TRUE,
                            bw   |-> IF bw_fixed THEN round2(s.optimum_bw) ELSE s.optimum_bw,
                            sync |-> ranks_leave_together(s),
                            exit |-> exit_cause(s)]]
    /\ pc' = [pc EXCEPT ![0] = "final"]
    /\ UNCHANGED <<searchVars, auxVars, runConf, set_up, sub, neighboring_unsampled, tgt, gbuf,
                   files, fileops, finals, fitted, pred>>

\* find_optimal_bw on another rank: it leaves the loop with the coordinator, or
\* stays in it (blocked in a broadcast, or iterating on) when the coordinator
\* left on its patience counter or on a NaN
SearchFollow(r) ==
    /\ r # 0
    /\ pc[r] = "search"
    /\ searched[tgt[r]].done
    /\ pc' = [pc EXCEPT ![r] = IF searched[tgt[r]].sync THEN "final" ELSE "desync"]
    /\ UNCHANGED <<searchVars, auxVars, runConf, set_up, sub, neighboring_unsampled, tgt, gbuf,
                   searched, files, fileops, finals, fitted, pred>>

\* what the local estimator (compute_betas_local, iwls) does on a sample: it
\* returns coefficients, or raises on a singular weighted design
local_fit_outcomes == {"ok", "LinAlgError"}

\* the rows of rank r for target k: local_fit for every sample of its chunk
local_fit_outputs(r, k) ==
    LET chunk == x_chunk(Len(sub[k]), r, n_ranks)
    IN  [q \in DOMAIN chunk |-> local_fit_row(distr, k, sub[k][chunk[q] + 1])]

\* lines 1456-1475: the local fits of a final pass and the gather; a singular
\* local fit raises out of mpi_fit and fit
FinalLocal(r) ==
    /\ pc[r] = "final"
    /\ finals' = [finals EXCEPT ![r] = Append(finals[r], tgt[r])]
    /\ \E outcome \in local_fit_outcomes :
          IF outcome = "LinAlgError" /\ x_chunk(Len(sub[tgt[r]]), r, n_ranks) # <<>>
          THEN /\ pc' = [pc EXCEPT ![r] = "raised"]
               /\ UNCHANGED <<tgt, gbuf>>
          ELSE /\ gbuf' = [gbuf EXCEPT ![r] =
                             [full |-> TRUE, k |-> tgt[r], rows |-> local_fit_outputs(r, tgt[r])]]
               /\ IF r = 0
                  THEN pc' = [pc EXCEPT ![0] = "gather"] /\ tgt' = tgt
                  ELSE AfterFinal(r)
    /\ UNCHANGED <<searchVars, auxVars, runConf, set_up, sub, neighboring_unsampled, searched,
                   files, fileops, fitted, pred>>

\* the chunks stacked from the last rank to the first
RECURSIVE vstack_reversed(_, _)
vstack_reversed(buf, r) ==
    IF r >= n_ranks THEN <<>> ELSE vstack_reversed(buf, r + 1) \o buf[r].rows

\* np.vstack(all_fit_outputs): the chunks in rank order
RECURSIVE vstack(_, _)
vstack(buf, r) == IF r >= n_ranks THEN <<>> ELSE buf[r].rows \o vstack(buf, r + 1)

\* lines 1475-1569 on the coordinator: the gather completes, the metrics are
\* computed and the table is saved
FinalGather ==
    /\ pc[0] = "gather"
    /\ \A r \in Ranks : pc[r] # "desync"
    /\ \A r \in Ranks : gbuf[r].full /\ gbuf[r].k = tgt[0]
    /\ LET k == tgt[0]
           all_fit_outputs == vstack(gbuf, 0)
           data == [q \in DOMAIN all_fit_outputs |-> scale_leverages(distr, all_fit_outputs[q])]
       IN  /\ files' = save_results(files, data, header_of(distr), targets[k], 0)
           /\ fileops' = fileops \cup save_ops(files, targets[k], 0)
           /\ fitted' = [fitted EXCEPT ![k] =
                           [i \in SeqRange(sub[k]) |->
                               distr_predict(distr, RowSum(i, betas_of(k, i)))]]
    /\ gbuf' = [r \in Ranks |-> NoGather]
    /\ AfterFinal(0)
    /\ UNCHANGED <<searchVars, auxVars, runConf, set_up, sub, neighboring_unsampled, searched,
                   finals, pred>>

\* the gather of the coordinator when another rank is still inside the search:
\* the collectives no longer match, and the coordinator raises (np.vstack on
\* what the other rank sent) or waits for ever
FinalGatherUnmatched ==
    /\ pc[0] = "gather"
    /\ \E r \in Ranks : pc[r] = "desync"
    /\ \E outcome \in {"gather_raised", "hung"} : pc' = [pc EXCEPT ![0] = outcome]
    /\ UNCHANGED <<searchVars, auxVars, runConf, set_up, sub, neighboring_unsampled, tgt, gbuf,
                   searched, files, fileops, finals, fitted, pred>>

\* lines 1898-1912, called by every rank of the driver (SWR_mpi.py line 190):
\* predict() with its defaults, then predictions.csv is written
PredictAndSave(r) ==
    /\ pc[r] = "predict"
    /\ LET y_pred == predict(files, subsampled, neighboring_unsampled, label_sub, distr)
       IN  /\ pred' = [pred EXCEPT ![r] = y_pred]
           /\ IF y_pred.status = "ok"
              THEN /\ files' = DictPut(files, pred_name, predictions_file(y_pred.table))
                   /\ fileops' = fileops \cup {[rank |-> r, op |-> "write", name |-> pred_name]}
                   /\ pc' = [pc EXCEPT ![r] = "done"]
              ELSE /\ pc' = [pc EXCEPT ![r] = "predict_raised"]
                   /\ UNCHANGED <<files, fileops>>
    /\ UNCHANGED <<searchVars, auxVars, runConf, set_up, sub, neighboring_unsampled, tgt, gbuf,
                   searched, finals, fitted>>

-----------------------------------------------------------------------------
(* SWR.compute_aicc_linear, lines 1796-1807, in exact arithmetic *)

\* the largest n_samples and RSS tried, and the steps per unit of trace_hat
MaxN == 5

MaxRSS == 2

TGrid == 4

\* aicc = n * log(RSS / n) + n * log(2 * pi) + n * (n + trace_hat) / (n - trace_hat - 2.0),
\* with trace_hat in steps of 1 / TGrid: the two log terms are kept as their
\* arguments, the third term as the fraction num / den
compute_aicc_linear_denominator_plus(RSS, trace_hat, n) ==
    [log_terms |-> <<RSS, n>>,
     num |-> n * (n * TGrid + trace_hat),
     den |-> n * TGrid + trace_hat - 2 * TGrid]

compute_aicc_linear(RSS, trace_hat, n) ==
    [log_terms |-> <<RSS, n>>,
     num |-> n * (n * TGrid + trace_hat),
     den |-> n * TGrid - trace_hat - 2 * TGrid]

\* a < b for two values of compute_aicc_linear with the same log terms and
\* positive denominators
aicc_less(a, b) ==
    /\ a.log_terms = b.log_terms
    /\ a.den > 0
    /\ b.den > 0
    /\ a.num * b.den < b.num * a.den

NoAicc == [trace_hat |-> None, aicc |-> None]

\* the values of trace_hat with 0 <= trace_hat < n - 2, in steps of 1 / TGrid
TraceRange(n) == 0..((n - 2) * TGrid - 1)

\* one call compute_aicc_linear(RSS, trace_hat, n_samples)
EvalAicc ==
    /\ aq.RSS # None
    /\ \E trace_hat \in TraceRange(aq.n) :
          aq' = [aq EXCEPT !.last = aq.cur,
                           !.cur = [trace_hat |-> trace_hat,
                                    aicc |-> compute_aicc_linear(aq.RSS, trace_hat, aq.n)]]
    /\ UNCHANGED <<searchVars, runVars, mgwrVars, confVars, passVars>>

IdleAicc == aq = [RSS |-> None, n |-> None, last |-> NoAicc, cur |-> NoAicc]

-----------------------------------------------------------------------------
(* One pass of SWR.mpi_fit over the chunks of the ranks, lines 1413-1621, with
   the chunk assignment that precedes it (lines 231-240 and 1687-1699) *)

MaxPassSamples == 4
MaxPassRanks == 3

PassDistrs == {"gaussian", "poisson", "nb"}

\* the target column of the pass
pass_label == <<"y">>

\* what the model object and the output directory hold when the pass starts
PassEntries ==
    [bw : {2 * Scale}, minbw : {Scale}, maxbw : {9 * Scale}, disp : {"initial"},
     files : {<<>>, DictPut(<<>>, result_path(<<"x">>), [header |-> <<>>, rows |-> <<>>])}]

NoPass ==
    [n |-> 0, final |-> FALSE, multiscale |-> FALSE, entry |-> <<>>, self |-> <<>>,
     chunk |-> <<>>, buf |-> <<>>, table |-> <<>>, ret |-> <<>>, at |-> <<>>]

NoReturn == [kind |-> "None", over |-> {}]

\* lines 237-239 and 1691-1693: the rank takes its slice of np.arange(n_samples)
SetChunk(r) ==
    /\ ps.at[r] = "start"
    /\ ps' = [ps EXCEPT !.chunk[r] = x_chunk(ps.n, r, n_ranks), !.at[r] = "local"]
    /\ UNCHANGED <<searchVars, runVars, mgwrVars, confVars, aiccVars, ms>>

\* what the loop over self.x_chunk leaves on a rank: one row per sample of the
\* chunk, filled at pos = 0, 1, ... (final mode, lines 1456-1472), or the
\* contributions of the chunk to the sums (scoring mode, lines 1577-1581 and
\* 1602-1607)
pass_local(d, final, chunk) ==
    [q \in DOMAIN chunk |->
        IF final THEN local_fit_row(d, 1, chunk[q]) ELSE <<Tok("score", 1, chunk[q], 0)>>]

\* the loop and the rank's side of comm.gather; a rank other than the
\* coordinator then waits for the broadcast (final multiscale pass) or returns
\* None
PassLocal(r) ==
    /\ ps.at[r] = "local"
    /\ ps' = [ps EXCEPT
                !.buf[r] = [full |-> TRUE, k |-> 1,
                            rows |-> pass_local(distr, ps.final, ps.chunk[r])],
                !.at[r] = IF r = 0 THEN "gather"
                          ELSE IF ps.final /\ ps.multiscale THEN "bcast" ELSE "done"]
    /\ UNCHANGED <<searchVars, runVars, mgwrVars, confVars, aiccVars, ms>>

\* every mode saving its table and refitting the dispersion
pass_effect_every_mode(self, final, multiscale, d, data) ==
    [self EXCEPT !.files = save_results(@, data, header_of(d), pass_label, 0),
                 !.disp = IF d = "nb" THEN "deviance / dof" ELSE @]

\* what the coordinator's part of a pass does to the model object and to the
\* output directory: only a final pass that is not multiscale reaches line 1554
\* (self.distr_obj.variance.disp) and save_results (lines 1525, 1567)
pass_effect(self, final, multiscale, d, data) ==
    IF final /\ ~multiscale
    THEN [self EXCEPT !.files = save_results(@, data, header_of(d), pass_label, 0),
                      !.disp = IF d = "nb" THEN "deviance / dof" ELSE @]
    ELSE self

\* what mpi_fit returns on the coordinator: the stacked table (final multiscale
\* pass, line 1480), None (final pass, line 1569) or the AICc computed from what
\* the ranks sent (lines 1587-1592 and 1613-1619)
pass_return(final, multiscale, gathered) ==
    IF final
    THEN [kind |-> IF multiscale THEN "table" ELSE "None", over |-> {}]
    ELSE [kind |-> "aicc", over |-> {row[1].i : row \in SeqRange(gathered)}]

\* lines 1475-1569 and 1584-1619 on the coordinator, once every rank has sent
PassGather ==
    /\ ps.at[0] = "gather"
    /\ \A r \in Ranks : ps.buf[r].full
    /\ LET gathered == vstack(ps.buf, 0)
           data == [q \in DOMAIN gathered |-> scale_leverages(distr, gathered[q])]
       IN  ps' = [ps EXCEPT
                    !.table[0] = IF ps.final THEN gathered ELSE @,
                    !.self = pass_effect(@, ps.final, ps.multiscale, distr, data),
                    !.ret[0] = pass_return(ps.final, ps.multiscale, gathered),
                    !.at[0] = "done"]
    /\ UNCHANGED <<searchVars, runVars, mgwrVars, confVars, aiccVars, ms>>

\* lines 1478-1480 on the other ranks of a final multiscale pass: the gathered
\* list is broadcast and stacked
PassBcast(r) ==
    /\ r # 0
    /\ ps.at[r] = "bcast"
    /\ ps.at[0] = "done"
    /\ ps' = [ps EXCEPT !.table[r] = vstack(ps.buf, 0),
                        !.ret[r] = pass_return(ps.final, ps.multiscale, <<>>),
                        !.at[r] = "done"]
    /\ UNCHANGED <<searchVars, runVars, mgwrVars, confVars, aiccVars, ms>>


-----------------------------------------------------------------------------
(* The input arrays over the targets of a multiscale run:
   MuSIC.multiscale_backfitting lines 2092-2126 and
   MuSIC.multiscale_compute_metrics lines 2423-2470 *)

\* the rows of an array are named by the sample they were built from
original_rows == [q \in 1..n_samples |-> q - 1]

\* arr[idx, :]
take(arr, idx) == [q \in DOMAIN idx |-> arr[idx[q] + 1]]

\* numpy raises IndexError for an index beyond the rows
in_bounds(arr, idx) == \A q \in DOMAIN idx : idx[q] < Len(arr)

NoInputs ==
    [subsampled |-> FALSE, indices |-> <<>>, coords |-> <<>>, n_samples |-> 0,
     X |-> <<>>, given |-> <<>>, k |-> 0, stage |-> "idle"]

\* one target of the loop of multiscale_backfitting: the local X is handed to
\* self.fit (line 2118) and then, for a subsampled model, rebound to its rows
\* at `indices` (line 2124); the rebinding is still there for the next target.
\* After the last target multiscale_compute_metrics starts from X = self.X
BackfitInputs ==
    /\ ms.stage = "backfit"
    /\ LET k == ms.k
           handed == Append(ms.given, [to |-> "fit", k |-> k, X |-> ms.X,
                                       coords |-> ms.coords, n_samples |-> ms.n_samples])
           last == k = Len(ms.indices)
       IN  IF ms.subsampled /\ ~in_bounds(ms.X, ms.indices[k])
           THEN ms' = [ms EXCEPT !.given = handed, !.stage = "IndexError"]
           ELSE ms' = [ms EXCEPT
                         !.given = handed,
                         !.X = IF last THEN original_rows
                               ELSE IF ms.subsampled THEN take(@, ms.indices[k]) ELSE @,
                         !.k = IF last THEN 1 ELSE k + 1,
                         !.stage = IF last THEN "metrics" ELSE "backfit"]
    /\ UNCHANGED <<searchVars, runVars, mgwrVars, confVars, aiccVars, ps>>

\* one target of the loop of multiscale_compute_metrics: for a subsampled model
\* self.n_samples, self.coords and the local X are replaced by their rows at
\* the target's indices (lines 2457-2468) before the chunks are computed
MetricsInputs ==
    /\ ms.stage = "metrics"
    /\ LET k == ms.k
           last == k = Len(ms.indices)
       IN  IF ms.subsampled /\ ~(in_bounds(ms.coords, ms.indices[k]) /\ in_bounds(ms.X, ms.indices[k]))
           THEN ms' = [ms EXCEPT !.n_samples = Len(ms.indices[k]), !.stage = "IndexError"]
           ELSE LET n == IF ms.subsampled THEN Len(ms.indices[k]) ELSE ms.n_samples
                    c == IF ms.subsampled THEN take(ms.coords, ms.indices[k]) ELSE ms.coords
                    x == IF ms.subsampled THEN take(ms.X, ms.indices[k]) ELSE ms.X
                IN  ms' = [ms EXCEPT
                             !.n_samples = n, !.coords = c, !.X = x,
                             !.given = Append(@, [to |-> "metrics", k |-> k, X |-> x,
                                                  coords |-> c, n_samples |-> n]),
                             !.k = k + 1,
                             !.stage = IF last THEN "done" ELSE "metrics"]
    /\ UNCHANGED <<searchVars, runVars, mgwrVars, confVars, aiccVars, ps>>

IdlePass == ps = NoPass /\ ms = NoInputs

-----------------------------------------------------------------------------
(* Configuration and the start of fit(): parse_stgwr_args, _set_up_model,
   the search range, the first local fits and the metrics pass *)

Distrs == {"gaussian", "poisson", "nb", "other"}

Kernels == {"bisquare", "uniform", "gaussian"}

\* the values given for -minbw and -maxbw: none, 50 or 200
BwArgs == {None, 50 * Scale, 200 * Scale}

\* find_neighbors.get_wi, the weight of sample i in its own weight vector:
\* 0 with exclude_self, else the value of the kernel at distance 0
get_wi_self(exclude) == IF exclude THEN 0 ELSE 1

\* lines 1053-1152: the range after _set_search_range (both branches alike)
set_search_range(minbw_arg, maxbw_arg, fixed) ==
    IF fixed
    THEN <<IF minbw_arg = None THEN (min_dist * Scale) \div 2 ELSE minbw_arg,
           max_dist * 2 * Scale>>
    ELSE <<IF minbw_arg = None THEN 5 * Scale ELSE minbw_arg,
           IF maxbw_arg = None THEN 100 * Scale ELSE maxbw_arg>>

NoConf == [kernel |-> "bisquare", exclude_self |-> FALSE, minbw |-> None,
           maxbw |-> None, wi_default |-> FALSE]

cst_init == [pc |-> [r \in Ranks |-> "init"],
             range_bcast |-> FALSE,
             minbw |-> conf.minbw,
             maxbw |-> conf.maxbw,
             wi_calls |-> {}]

\* lines 247-363, run by __init__ on every rank: the distribution family is
\* looked up with if/elif and no else; the only test is on the kernel
ParseArgs(r) ==
    /\ cst.pc[r] = "init"
    /\ cst' = [cst EXCEPT !.pc[r] =
                 IF ~bw_fixed /\ conf.kernel \notin {"bisquare", "uniform"}
                 THEN "config_raised" ELSE "set_up"]
    /\ UNCHANGED <<searchVars, runVars, mgwrVars, aiccVars, passVars, conf>>

\* lines 160-245 with load_and_process: the data are loaded and the initial
\* weight matrix is computed by _compute_all_wi (lines 842-843, 1171-1181)
SetUpModel(r) ==
    /\ cst.pc[r] = "set_up"
    /\ cst' = [cst EXCEPT
                 !.pc[r] = "fit",
                 !.wi_calls = @ \cup {[site |-> "_compute_all_wi",
                                       self |-> get_wi_self(conf.exclude_self)]}]
    /\ UNCHANGED <<searchVars, runVars, mgwrVars, aiccVars, passVars, conf>>

\* fit() lines 1705-1728 on rank 0: with a bandwidth the final pass starts; else
\* the range is set, which raises when minbw >= maxbw, and is then broadcast
FitRangeRoot ==
    /\ cst.pc[0] = "fit"
    /\ IF bw_given
       THEN cst' = [cst EXCEPT !.pc[0] = "final"]
       ELSE LET rng == set_search_range(conf.minbw, conf.maxbw, bw_fixed)
            IN  IF rng[1] >= rng[2]
                THEN cst' = [cst EXCEPT !.pc[0] = "config_raised",
                                        !.minbw = rng[1], !.maxbw = rng[2]]
                ELSE cst' = [cst EXCEPT !.pc[0] = "scoring", !.range_bcast = TRUE,
                                        !.minbw = rng[1], !.maxbw = rng[2]]
    /\ UNCHANGED <<searchVars, runVars, mgwrVars, aiccVars, passVars, conf>>

\* fit() lines 1705-1728 on the other ranks: they wait in the broadcast of
\* line 1722 for the range of rank 0
FitRangeFollow(r) ==
    /\ r # 0
    /\ cst.pc[r] = "fit"
    /\ IF bw_given
       THEN cst' = [cst EXCEPT !.pc[r] = "final"]
       ELSE \/ /\ cst.range_bcast
               /\ cst' = [cst EXCEPT !.pc[r] = "scoring"]
            \/ /\ cst.pc[0] = "config_raised"
               /\ cst' = [cst EXCEPT !.pc[r] = "hung"]
    /\ UNCHANGED <<searchVars, runVars, mgwrVars, aiccVars, passVars, conf>>

\* lines 1188-1316, the first local fit of a pass of mpi_fit on rank r: the
\* weights come from get_wi without exclude_self (lines 1251-1253), and the
\* family is tested only here (lines 1255-1296)
LocalFit(r) ==
    /\ cst.pc[r] \in {"scoring", "final"}
    /\ \E fit_predictor \in BOOLEAN :
          LET calls == cst.wi_calls \cup {[site |-> "local_fit",
                                           self |-> get_wi_self(conf.wi_default)]}
          IN  IF distr = "gaussian" \/ fit_predictor \/ distr \in {"poisson", "nb"}
              THEN cst' = [cst EXCEPT !.pc[r] = "fitted", !.wi_calls = calls]
              ELSE cst' = [cst EXCEPT !.pc[r] = "local_fit_raised", !.wi_calls = calls]
    /\ UNCHANGED <<searchVars, runVars, mgwrVars, aiccVars, passVars, conf>>

\* chunk_compute_metrics, lines 2358-2360: the weights of the metrics pass come
\* from get_wi without exclude_self
MetricsPass(r) ==
    /\ cst.pc[r] = "fitted"
    /\ cst' = [cst EXCEPT
                 !.pc[r] = "done",
                 !.wi_calls = @ \cup {[site |-> "chunk_compute_metrics",
                                       self |-> get_wi_self(conf.wi_default)]}]
    /\ UNCHANGED <<searchVars, runVars, mgwrVars, aiccVars, passVars, conf>>

IdleConf ==
    /\ conf = NoConf
    /\ cst = [pc |-> <<>>, range_bcast |-> FALSE, minbw |-> None, maxbw |-> None,
              wi_calls |-> {}]

-----------------------------------------------------------------------------
(* MuSIC.multiscale_backfitting for one target, lines 2099-2306 *)

\* self.patience (5 by default), bounded here
patience == 1

\* the floor of line 2152, n_iters = max(200, self.max_iter), bounded here
backfit_floor == 4

\* line 2152
n_iters == IF backfit_floor >= max_iter THEN backfit_floor ELSE max_iter

\* the score curves the bandwidth searches of a backfitting run meet: at each
\* search a unimodal curve or a second curve, flat or NaN below a bandwidth of 50
BaseScoreFn == [kind |-> "unimodal", left |-> 1, right |-> 1, nan_below |-> 0]

AltScoreFns ==
    {[kind |-> "unimodal", left |-> 0, right |-> 0, nan_below |-> 0],
     [kind |-> "unimodal", left |-> 1, right |-> 1, nan_below |-> 50]}

CurveSets == {{BaseScoreFn, a} : a \in AltScoreFns}

\* the runs in which every search meets the same curve
SingleCurves == {{f} : f \in {g \in ScoreFns : g.kind = "unimodal"} \cup AltScoreFns}

\* the values the convergence score of a round (rmse, line 2226) takes: below
\* the tolerance, and three values above it
BackfitScores == {tolerance \div 2, 2 * tolerance, 5 * tolerance, 8 * tolerance}

\* lines 1717-1741 for one column with multiscale=True: the search range, the
\* search, the rounding in fixed mode; the bandwidth returned in all_bws, with
\* whether the search left on a NaN and how many iterations it ran
fit_search(fn, fixed) ==
    LET rng == search_range(fixed)
        s == find_optimal_bw(rng[1], rng[2], fn, fixed)
    IN  [bw |-> IF fixed THEN round2(s.optimum_bw) ELSE s.optimum_bw,
         nan |-> s.nan_return,
         iterations |-> s.iterations]

\* lines 2145-2150: the locals before the round loop. Of the arrays
\* y_pred_init, new_ys, new_betas and error the record holds the round whose
\* feature updates filled them, 0 for the fit before the first round
backfit_init(all_bws_init) ==
    [all_bws_init |-> all_bws_init,
     y_pred_init |-> 0,
     new_ys |-> 0,
     new_betas |-> 0,
     error |-> 0,
     bws |-> [j \in 1..n_features |-> None],
     bw_dict |-> None,
     bw_plateau_counter |-> 0,
     bw_history |-> <<>>,
     score_history |-> <<>>,
     iter |-> 1,
     n_feat |-> 1]

\* the log of a round: the bandwidths before it, per feature the bandwidth its
\* coefficients were fitted with, whether its search was skipped and whether its
\* own bandwidth had been unchanged for more than patience rounds, and the
\* bandwidths appended to bw_history
NoRound == [before |-> <<>>, used |-> <<>>, skipped |-> <<>>, own_stable |-> <<>>,
            after |-> <<>>]

\* unchanged: per feature, for how many consecutive rounds its bandwidth in
\* bw_history has stayed the same
NoLog == [nan_seen |-> FALSE, updates_after_nan |-> 0, search_iterations |-> 0,
          unchanged |-> [j \in 1..n_features |-> 0],
          cur |-> NoRound]

NoStored == [done |-> FALSE, bw_history |-> <<>>, rounds |-> 0, exit |-> "none",
             params |-> 0, predictions |-> 0, errors |-> 0]

\* the log after a bandwidth search; in_round is FALSE for the fit before the
\* first round
logged_search(lg, res, in_round) ==
    [lg EXCEPT !.nan_seen = lg.nan_seen \/ (in_round /\ res.nan),
               !.search_iterations = IF res.iterations > lg.search_iterations
                                     THEN res.iterations ELSE lg.search_iterations]


-----------------------------------------------------------------------------
(* The predictions and the residual of the round loop of
   MuSIC.multiscale_backfitting at one sample, Gaussian family, lines 2126-2249 *)

\* the values a per-feature contribution X[i, j] * betas[i, j] takes
Contributions == {-1, 0, 1}

\* the observed response at the sample
Responses == {0, 2}

RECURSIVE SeqSum(_)
SeqSum(q) == IF q = <<>> THEN 0 ELSE q[1] + SeqSum(Tail(q))

\* the old contribution taken away instead of added
partial_response_subtracted(y_pred_init_j, error) == error - y_pred_init_j

\* line 2164: y_mod = y_pred_init[:, n_feat] + error
partial_response(y_pred_init_j, error) == y_pred_init_j + error

NoResidual ==
    [y |-> 0, y_pred_init |-> <<>>, new_ys |-> <<>>, error |-> 0, iter |-> 0, n_feat |-> 0,
     y_pred_history |-> <<>>, error_history |-> <<>>,
     last |-> [old |-> 0, new |-> 0, before |-> 0], stage |-> "idle"]

\* lines 2126-2150: the contributions of the fit with one bandwidth, the
\* residual they leave, and the empty histories
ResidualStart ==
    /\ rs.stage = "start"
    /\ \E init \in [1..n_features -> Contributions] :
          rs' = [rs EXCEPT !.y_pred_init = init,
                           !.error = rs.y - SeqSum(init),
                           !.new_ys = <<>>,
                           !.iter = 1,
                           !.n_feat = 1,
                           !.stage = "features"]
    /\ UNCHANGED <<searchVars, runVars, confVars, aiccVars, passVars, curves, bf, bphase,
                   stored, blog>>

\* lines 2157-2210: the update of feature n_feat; whichever branch fits the
\* coefficients, new_y = temp_X * betas is some contribution
ResidualUpdate ==
    /\ rs.stage = "features"
    /\ \E new_y \in Contributions :
          LET j == rs.n_feat
              y_mod == partial_response(rs.y_pred_init[j], rs.error)
          IN  rs' = [rs EXCEPT
                        !.error = y_mod - new_y,
                        !.new_ys = Append(@, new_y),
                        !.last = [old |-> rs.y_pred_init[j], new |-> new_y,
                                  before |-> rs.error],
                        !.n_feat = j + 1,
                        !.stage = IF j = n_features THEN "round_end" ELSE "features"]
    /\ UNCHANGED <<searchVars, runVars, confVars, aiccVars, passVars, curves, bf, bphase,
                   stored, blog>>

\* lines 2220-2249: the histories grow; the round converges, or rolls back to
\* the round before it (from the third round on), or its predictions start the
\* next round
ResidualRoundEnd ==
    /\ rs.stage = "round_end"
    /\ LET \* only the last two entries of a history are ever read (lines 2236-2237)
           newest(q) == IF Len(q) > 2 THEN Tail(q) ELSE q
           eh == newest(Append(rs.error_history, rs.error))
           yh == newest(Append(rs.y_pred_history, rs.new_ys))
           base == [rs EXCEPT !.error_history = eh, !.y_pred_history = yh]
       IN  \E outcome \in {"converged", "local_minimum", "next"} :
              /\ outcome = "local_minimum" => rs.iter > 2
              /\ rs' = IF outcome = "converged"
                       THEN [base EXCEPT !.stage = "done"]
                       ELSE IF outcome = "local_minimum"
                       THEN [base EXCEPT !.new_ys = yh[Len(yh) - 1],
                                         !.error = eh[Len(eh) - 1],
                                         !.stage = "done"]
                       ELSE IF rs.iter >= n_iters
                       THEN [base EXCEPT !.y_pred_init = rs.new_ys, !.stage = "done"]
                       ELSE [base EXCEPT !.y_pred_init = rs.new_ys,
                                         !.new_ys = <<>>,
                                         !.iter = rs.iter + 1,
                                         !.n_feat = 1,
                                         !.stage = "features"]
    /\ UNCHANGED <<searchVars, runVars, confVars, aiccVars, passVars, curves, bf, bphase,
                   stored, blog>>

-----------------------------------------------------------------------------
\* lines 2117-2150: the fit with one bandwidth for all features, then the locals
BackfitStart ==
    /\ bphase = "start"
    /\ \E fn \in curves :
          LET res == fit_search(fn, bw_fixed)
          IN  /\ bf' = backfit_init(res.bw)
              /\ blog' = logged_search(blog, res, FALSE)
    /\ bphase' = "features"
    /\ UNCHANGED <<searchVars, runVars, confVars, aiccVars, passVars, rs, curves, stored>>

\* lines 2157-2212: the update of feature n_feat in a round
FeatureUpdate ==
    /\ bphase = "features"
    /\ LET j == bf.n_feat
           plateau == bf.bw_plateau_counter > patience
       IN  \E fn \in curves :
              LET res == fit_search(fn, bw_fixed)
                  \* line 2193: bw_dict is bound by fit() only; the plateau branch
                  \* leaves it as the last search of an earlier round left it
                  bw_dict == IF plateau THEN bf.bw_dict ELSE res.bw
                  \* the bandwidth the coefficients of this feature are fitted with:
                  \* line 2182, or the final pass inside fit()
                  bw == IF plateau THEN bf.bws[j] ELSE res.bw
                  lg == IF plateau THEN blog ELSE logged_search(blog, res, TRUE)
                  cur == IF j = 1
                         THEN [NoRound EXCEPT !.before = bf.bws]
                         ELSE blog.cur
              IN  /\ bf' = [bf EXCEPT !.bw_dict = bw_dict,
                                      !.bws[j] = bw_dict,
                                      \* lines 2207-2210
                                      !.new_ys = bf.iter,
                                      !.new_betas = bf.iter,
                                      !.error = bf.iter,
                                      !.n_feat = j + 1]
                  /\ blog' = [lg EXCEPT
                        !.updates_after_nan =
                            blog.updates_after_nan + (IF blog.nan_seen THEN 1 ELSE 0),
                        !.cur = [cur EXCEPT
                                   !.used = Append(cur.used, bw),
                                   !.skipped = Append(cur.skipped, plateau),
                                   !.own_stable = Append(cur.own_stable,
                                                         blog.unchanged[j] > patience)]]
                  /\ bphase' = IF j = n_features THEN "round_end" ELSE "features"
    /\ UNCHANGED <<searchVars, runVars, confVars, aiccVars, passVars, rs, curves, stored>>

\* the first comparison strict
local_minimum_strict(iter, sh) ==
    iter > 2 /\ sh[Len(sh) - 2] > sh[Len(sh) - 1] /\ sh[Len(sh)] >= sh[Len(sh) - 1]

\* lines 2233-2234, on the score history with the score of the round appended
local_minimum(iter, sh) ==
    iter > 2 /\ sh[Len(sh) - 2] >= sh[Len(sh) - 1] /\ sh[Len(sh)] >= sh[Len(sh) - 1]

\* lines 2214-2249: the end of a round
RoundEnd ==
    /\ bphase = "round_end"
    /\ \E rmse \in BackfitScores :
          LET counter == IF bf.iter > 1 /\ bf.bw_history[Len(bf.bw_history)] = bf.bws
                         THEN bf.bw_plateau_counter + 1 ELSE 0
              hist == Append(bf.bw_history, bf.bws)
              sh == Append(bf.score_history, rmse)
              converged == rmse < tolerance
              base == [bf EXCEPT !.bw_plateau_counter = counter,
                                 !.bw_history = hist,
                                 !.score_history = sh]
          IN  /\ blog' = [blog EXCEPT
                    !.cur.after = bf.bws,
                    !.unchanged = [j \in 1..n_features |->
                        IF bf.iter > 1 /\ bf.bw_history[Len(bf.bw_history)][j] = bf.bws[j]
                        THEN blog.unchanged[j] + 1 ELSE 0]]
              /\ IF converged
                 THEN bf' = base /\ bphase' = "converged"
                 ELSE IF local_minimum(bf.iter, sh)
                 THEN \* lines 2236-2239: y_pred_history[-2], error_history[-2],
                      \* bw_history[:-1]; new_betas stays
                      /\ bf' = [base EXCEPT !.new_ys = bf.iter - 1,
                                            !.error = bf.iter - 1,
                                            !.bw_history = SubSeq(hist, 1, Len(hist) - 1)]
                      /\ bphase' = "local_minimum"
                 ELSE IF bf.iter >= n_iters
                 THEN bf' = [base EXCEPT !.y_pred_init = bf.iter] /\ bphase' = "cap"
                 ELSE /\ bf' = [base EXCEPT !.y_pred_init = bf.iter,
                                            !.iter = bf.iter + 1, !.n_feat = 1]
                      /\ bphase' = "features"
    /\ UNCHANGED <<searchVars, runVars, confVars, aiccVars, passVars, rs, curves, stored>>

\* lines 2251-2294: after the loop, the results of the target are stored
BackfitStore ==
    /\ bphase \in {"converged", "local_minimum", "cap"}
    /\ stored' = [done |-> TRUE, bw_history |-> bf.bw_history, rounds |-> bf.iter,
                  exit |-> bphase,
                  \* lines 2291-2293
                  params |-> bf.new_betas, predictions |-> bf.new_ys, errors |-> bf.error]
    /\ bphase' = "stored"
    /\ UNCHANGED <<searchVars, runVars, confVars, aiccVars, passVars, rs, curves, bf, blog>>

IdleBackfit ==
    /\ rs = NoResidual
    /\ curves = {}
    /\ bf = backfit_init(None)
    /\ bphase = "idle"
    /\ stored = NoStored
    /\ blog = NoLog

IdleAux == IdleBackfit /\ IdleConf /\ IdleAicc /\ IdlePass

-----------------------------------------------------------------------------
(* SpecRun: the driver on every rank *)

IdleSearch ==
    /\ sargs = <<0, 0>>
    /\ st = search_init(0, 0)
    /\ sphase = "idle"
    /\ fol = [follow_init(0, 0) EXCEPT !.phase = "idle"]

IdleRun ==
    /\ n_ranks = 1
    /\ targets = <<>>
    /\ bw_given = FALSE
    /\ distr = "gaussian"
    /\ subsampled = FALSE
    /\ coords = <<>>
    /\ set_up = FALSE
    /\ sub = <<>>
    /\ neighboring_unsampled = <<>>
    /\ pc = <<>>
    /\ tgt = <<>>
    /\ gbuf = <<>>
    /\ searched = <<>>
    /\ files = <<>>
    /\ fileops = {}
    /\ finals = <<>>
    /\ fitted = <<>>
    /\ pred = <<>>

\* the orders of target columns tried
TargetLists == {q \in Perms(Labels) : Len(q) <= MaxTargets}

InitRun ==
    /\ IdleSearch
    /\ IdleAux
    /\ n_ranks \in 1..MaxRanks
    /\ targets \in TargetLists
    /\ bw_given \in BOOLEAN
    /\ \/ /\ subsampled = FALSE
          /\ distr \in {"gaussian", "poisson", "nb"}
          /\ bw_fixed \in BOOLEAN
          /\ scoreFn \in RunScoreFns
          /\ coords = [i \in Samples |-> <<2 * i, 0>>]
       \/ /\ subsampled = TRUE
          /\ distr = "gaussian"
          /\ bw_fixed = FALSE
          /\ scoreFn = [kind |-> "unimodal", left |-> 0, right |-> 0, nan_below |-> 0]
          /\ coords \in CoordLayouts
    /\ set_up = FALSE
    /\ sub = <<>>
    /\ neighboring_unsampled = <<>>
    /\ pc = [r \in Ranks |-> "setup"]
    /\ tgt = [r \in Ranks |-> 1]
    /\ gbuf = [r \in Ranks |-> NoGather]
    /\ searched = [k \in DOMAIN targets |-> NoSearch]
    /\ files = <<>>
    /\ fileops = {}
    /\ finals = [r \in Ranks |-> <<>>]
    /\ fitted = [k \in DOMAIN targets |-> <<>>]
    /\ pred = [r \in Ranks |-> NoPred]

NextRun ==
    \/ SetUpRoot
    \/ SearchRoot
    \/ FinalGather
    \/ FinalGatherUnmatched
    \/ \E r \in Ranks : SetUpFollow(r)
    \/ \E r \in Ranks : FitLoop(r)
    \/ \E r \in Ranks : SearchFollow(r)
    \/ \E r \in Ranks : FinalLocal(r)
    \/ \E r \in Ranks : PredictAndSave(r)

SpecRun == InitRun /\ [][NextRun]_vars

-----------------------------------------------------------------------------
(* SpecSearch: find_optimal_bw step by step *)

\* the search ranges tried: the range of the golden-section test, the default
\* adaptive range (minbw 5, maxbw 100) and a narrow one
SearchRanges == {<<1, 100>>, <<5, 100>>, <<5, 20>>}

InitSearch ==
    /\ bw_fixed \in BOOLEAN
    /\ scoreFn \in ScoreFns
    /\ sargs \in SearchRanges
    /\ st = search_init(sargs[1] * Scale, sargs[2] * Scale)
    /\ sphase = "loop"
    /\ fol = follow_init(sargs[1] * Scale, sargs[2] * Scale)
    /\ IdleRun
    /\ IdleAux

\* one pass through the loop body; a NaN score returns from inside it (line 1393)
SearchIterate ==
    /\ sphase = "loop"
    /\ loop_cond(st)
    /\ \E f_lb \in EvalSet(scoreFn, probe_lb(st, bw_fixed)),
          f_ub \in EvalSet(scoreFn, probe_ub(st, bw_fixed)) :
          st' = search_iter(st, f_lb, f_ub, bw_fixed)
    /\ sphase' = IF st'.nan_return THEN "returned" ELSE "loop"
    /\ fol' = follow_iter(fol, st', bw_fixed)
    /\ UNCHANGED <<bw_fixed, scoreFn, sargs, runVars, auxVars>>

\* line 1411: the loop condition fails on rank 0 and optimum_bw is returned;
\* another rank tests the condition on its own locals
SearchReturn ==
    /\ sphase = "loop"
    /\ ~loop_cond(st)
    /\ sphase' = "returned"
    /\ fol' = IF loop_cond(fol) THEN follow_alone(fol, bw_fixed)
              ELSE [fol EXCEPT !.phase = "returned"]
    /\ UNCHANGED <<bw_fixed, scoreFn, sargs, st, runVars, auxVars>>

NextSearch == SearchIterate \/ SearchReturn

SpecSearch == InitSearch /\ [][NextSearch]_vars

-----------------------------------------------------------------------------
(* SpecBackfit: multiscale_backfitting of one target *)

\* the state at the call, with the curves of the run
backfit_entry ==
    /\ IdleSearch
    /\ IdleRun
    /\ IdleConf
    /\ IdleAicc
    /\ IdlePass
    /\ rs = NoResidual
    /\ bw_fixed = FALSE
    /\ scoreFn = BaseScoreFn
    /\ bf = backfit_init(None)
    /\ bphase = "start"
    /\ stored = NoStored
    /\ blog = NoLog

InitBackfit == backfit_entry /\ curves \in CurveSets

NextBackfit == BackfitStart \/ FeatureUpdate \/ RoundEnd \/ BackfitStore

SpecBackfit == InitBackfit /\ [][NextBackfit]_vars

\* SpecBackfitCap: the runs with one curve for all searches
InitBackfitCap == backfit_entry /\ curves \in SingleCurves

SpecBackfitCap == InitBackfitCap /\ [][NextBackfit]_vars

-----------------------------------------------------------------------------
(* SpecConfig: configuration and the start of fit() on every rank *)

InitConfig ==
    /\ IdleSearch
    /\ IdleBackfit
    /\ IdleAicc
    /\ IdlePass
    /\ n_ranks \in 1..MaxRanks
    /\ targets = <<>>
    /\ bw_given \in BOOLEAN
    /\ distr \in Distrs
    /\ bw_fixed \in BOOLEAN
    /\ scoreFn = BaseScoreFn
    /\ subsampled = FALSE
    /\ coords = [i \in Samples |-> <<2 * i, 0>>]
    /\ set_up = FALSE
    /\ sub = <<>>
    /\ neighboring_unsampled = <<>>
    /\ pc = <<>>
    /\ tgt = <<>>
    /\ gbuf = <<>>
    /\ searched = <<>>
    /\ files = <<>>
    /\ fileops = {}
    /\ finals = <<>>
    /\ fitted = <<>>
    /\ pred = <<>>
    /\ conf \in [kernel : Kernels, exclude_self : BOOLEAN, minbw : BwArgs,
                 maxbw : {None, 50 * Scale}, wi_default : BOOLEAN]
    /\ cst = cst_init

NextConfig ==
    \/ FitRangeRoot
    \/ \E r \in Ranks : ParseArgs(r)
    \/ \E r \in Ranks : SetUpModel(r)
    \/ \E r \in Ranks : FitRangeFollow(r)
    \/ \E r \in Ranks : LocalFit(r)
    \/ \E r \in Ranks : MetricsPass(r)

SpecConfig == InitConfig /\ [][NextConfig]_vars

-----------------------------------------------------------------------------
(* SpecAicc: compute_aicc_linear for a fixed RSS and n_samples *)

InitAicc ==
    /\ IdleSearch
    /\ IdleRun
    /\ IdleBackfit
    /\ IdleConf
    /\ IdlePass
    /\ bw_fixed = FALSE
    /\ scoreFn = BaseScoreFn
    /\ aq \in [RSS : 1..MaxRSS, n : 1..MaxN, last : {NoAicc}, cur : {NoAicc}]

NextAicc == EvalAicc

SpecAicc == InitAicc /\ [][NextAicc]_vars

-----------------------------------------------------------------------------
(* A pass of mpi_fit of any mode over any sample count and communicator size *)

InitPass ==
    /\ IdleSearch
    /\ IdleBackfit
    /\ IdleConf
    /\ IdleAicc
    /\ n_ranks \in 1..MaxPassRanks
    /\ targets = <<>>
    /\ bw_given = FALSE
    /\ distr \in PassDistrs
    /\ bw_fixed = FALSE
    /\ scoreFn = BaseScoreFn
    /\ subsampled = FALSE
    /\ coords = <<>>
    /\ set_up = FALSE
    /\ sub = <<>>
    /\ neighboring_unsampled = <<>>
    /\ pc = <<>>
    /\ tgt = <<>>
    /\ gbuf = <<>>
    /\ searched = <<>>
    /\ files = <<>>
    /\ fileops = {}
    /\ finals = <<>>
    /\ fitted = <<>>
    /\ pred = <<>>
    /\ \E n \in 1..MaxPassSamples, final \in BOOLEAN, multiscale \in BOOLEAN,
          entry \in PassEntries :
          ps = [n |-> n, final |-> final, multiscale |-> multiscale,
                entry |-> entry, self |-> entry,
                chunk |-> [r \in Ranks |-> <<>>],
                buf |-> [r \in Ranks |-> NoGather],
                table |-> [r \in Ranks |-> <<>>],
                ret |-> [r \in Ranks |-> NoReturn],
                at |-> [r \in Ranks |-> "start"]]
    /\ ms = NoInputs

NextPass ==
    \/ \E r \in Ranks : SetChunk(r)
    \/ \E r \in Ranks : PassLocal(r)
    \/ PassGather
    \/ \E r \in Ranks : PassBcast(r)

SpecPass == InitPass /\ [][NextPass]_vars

-----------------------------------------------------------------------------
(* The arithmetic of the round loop of multiscale_backfitting at one sample *)

InitResidual ==
    /\ IdleSearch
    /\ IdleRun
    /\ IdleConf
    /\ IdleAicc
    /\ IdlePass
    /\ bw_fixed = FALSE
    /\ scoreFn = BaseScoreFn
    /\ curves = {}
    /\ bf = backfit_init(None)
    /\ bphase = "idle"
    /\ stored = NoStored
    /\ blog = NoLog
    /\ \E y \in Responses : rs = [NoResidual EXCEPT !.y = y, !.stage = "start"]

NextResidual == ResidualStart \/ ResidualUpdate \/ ResidualRoundEnd

SpecResidual == InitResidual /\ [][NextResidual]_vars

-----------------------------------------------------------------------------
(* The targets of a multiscale run, with and without subsampling *)

\* the sorted row indices kept for a target
IndexLists == {SortedSeq(S) : S \in SUBSET Samples \ {{}}}

InitInputs ==
    /\ IdleSearch
    /\ IdleRun
    /\ IdleBackfit
    /\ IdleConf
    /\ IdleAicc
    /\ bw_fixed = FALSE
    /\ scoreFn = BaseScoreFn
    /\ ps = NoPass
    /\ \E sampled \in BOOLEAN, per_target \in [1..MaxTargets -> IndexLists] :
          /\ ~sampled => \A k \in 1..MaxTargets : per_target[k] = original_rows
          /\ ms = [subsampled |-> sampled, indices |-> per_target,
                   coords |-> original_rows, n_samples |-> n_samples,
                   X |-> original_rows, given |-> <<>>, k |-> 1, stage |-> "backfit"]

NextInputs == BackfitInputs \/ MetricsInputs

SpecInputs == InitInputs /\ [][NextInputs]_vars

-----------------------------------------------------------------------------
(* Claims about find_optimal_bw *)

\* C5 (as stated): for every unimodal scoring function on [1,100] whose minimum
\* is at 37, find_optimal_bw(1, 100, score) returns a bandwidth within
\* `tolerance` of 37, within the iteration cap.
C5_GoldenSectionFinds37 ==
    (sphase = "returned" /\ scoreFn.kind = "unimodal" /\ sargs = <<1, 100>>)
        => /\ st.optimum_bw # None
           /\ Abs(st.optimum_bw - UniMin * Scale) <= tolerance
           /\ st.iterations <= max_iter

\* C6 (as stated): when a score evaluated in an iteration is NaN, the search
\* returns in that iteration and the bandwidth returned is one whose evaluated
\* score is not NaN.
C6_NaNReturnsKnownGood ==
    (sphase # "idle" /\ st.iterations >= 1 /\ (isnan(st.lb_score) \/ isnan(st.ub_score)))
        => /\ sphase = "returned"
           /\ st.optimum_bw \in DOMAIN st.results_dict
           /\ ~isnan(st.results_dict[st.optimum_bw])

\* the two probe scores of the last iteration differ by no more than the tolerance
ExitTolerance(s) == Abs(s.lb_score - s.ub_score) <= tolerance

\* max_iter iterations have run
ExitMaxIter(s) == s.iterations >= max_iter

\* the best score did not improve in any of the last 3 iterations
ExitStalled(s) ==
    LET h == s.optimum_score_history
        n == Len(h)
    IN  n >= patience_limit + 1 /\ \A i \in (n - patience_limit + 1)..n : h[i] >= h[i - 1]

\* the bandwidth has the lowest score among all bandwidths evaluated
LowestEvaluated(s, bw) ==
    /\ bw \in DOMAIN s.results_dict
    /\ \A k \in DOMAIN s.results_dict : s.results_dict[bw] <= s.results_dict[k]

\* C7: with NaN-free scores the loop stops exactly when the probe scores differ
\* by no more than the tolerance, or max_iter iterations have run, or the best
\* score has not improved for 3 consecutive iterations, and the bandwidth
\* returned then has the lowest score among all bandwidths evaluated.
C7_ExitAndBest ==
    (sphase # "idle" /\ st.iterations >= 1 /\ ~st.nan_return)
        => /\ (sphase = "loop") =>
                 (loop_cond(st) <=> ~(ExitTolerance(st) \/ ExitMaxIter(st) \/ ExitStalled(st)))
           /\ (sphase = "returned") =>
                 /\ ExitTolerance(st) \/ ExitMaxIter(st) \/ ExitStalled(st)
                 /\ LowestEvaluated(st, st.optimum_bw)

\* C7 witness: the search returned because the best score stalled for 3
\* iterations, with the probes still more than the tolerance apart and
\* iterations left, after evaluating at least four bandwidths
C7_Witness ==
    /\ sphase = "returned" /\ ~st.nan_return
    /\ ExitStalled(st) /\ ~ExitTolerance(st) /\ ~ExitMaxIter(st)
    /\ Cardinality(DOMAIN st.results_dict) >= 4
    /\ \E k \in DOMAIN st.results_dict : st.results_dict[k] > st.results_dict[st.optimum_bw]

\* the other two exits of C7 are reached as well
C7_WitnessTolerance ==
    /\ sphase = "returned" /\ ~st.nan_return /\ st.iterations >= 2
    /\ ExitTolerance(st) /\ ~ExitMaxIter(st) /\ ~ExitStalled(st)

C7_WitnessMaxIter ==
    /\ sphase = "returned" /\ ~st.nan_return
    /\ ExitMaxIter(st) /\ ~ExitTolerance(st) /\ ~ExitStalled(st)

\* C29: within one call the scoring function has been invoked once for each
\* distinct bandwidth probed and never twice for one, and after the first
\* iteration each iteration has added at most one invocation.
C29_OneScoringPassPerBandwidth ==
    /\ st.n_calls = Cardinality(DOMAIN st.results_dict)
    /\ st.iterations >= 1 => st.n_calls <= st.iterations + 1

\* a search of three or more iterations in which every iteration after the
\* first reused one stored score and invoked the function for the other probe
C29_Witness ==
    /\ sphase = "returned"
    /\ st.iterations >= 3
    /\ st.n_calls = st.iterations + 1

\* C17: when rank 0 has left find_optimal_bw, every other rank has left it in
\* the same iteration with the same bandwidth, whatever ended the search; no
\* rank waits in a broadcast or a gather the others do not enter.
C17_RanksLeaveTogether ==
    /\ fol.phase \notin {"bcast_wait", "function_wait"}
    /\ sphase = "returned" =>
          /\ fol.phase = "returned"
          /\ fol.iterations = st.iterations
          /\ fol.optimum_bw = st.optimum_bw

-----------------------------------------------------------------------------
(* Claims about a run of the driver *)

\* fit() has returned on rank r
fit_returned(r) == pc[r] \in {"predict", "done", "predict_raised"}

\* C1: after fit() has processed T >= 2 targets with a searched bandwidth, the
\* output location holds the result file of every one of the T targets.
C1_OneFilePerTarget ==
    (Len(targets) >= 2 /\ ~bw_given /\ pc[0] = "predict" /\ Len(finals[0]) = Len(targets))
        => \A k \in DOMAIN targets : result_path(targets[k]) \in DOMAIN files

\* C2: when fit() has returned on a rank, that rank has run exactly one final
\* pass per target, in column order, searched or explicit bandwidth alike.
C2_OneFinalPassPerTarget ==
    \A r \in DOMAIN pc :
        fit_returned(r) => finals[r] = [k \in DOMAIN targets |-> k]

\* the coefficients the final pass found for sample i of target k, or, for a
\* sample outside the subsample, those of the sampled sample it is assigned to
saved_coefficients(k, i) ==
    IF i \in SeqRange(sub[k]) THEN betas_of(k, i)
    ELSE betas_of(k, sub[k][closest_index(coords, sub[k], i)])

\* C3: after a completed fit, predict() with default arguments returns one row
\* per training sample and one column per fitted target, each entry being the
\* inverse link of the sample's input times its saved coefficients.
C3_PredictReproducesFit ==
    (pc # <<>> /\ pred[0].status # "none" /\ \A k \in DOMAIN targets : fitted[k] # <<>>)
        => /\ pred[0].status = "ok"
           /\ DOMAIN pred[0].table = SeqRange(targets)
           /\ \A t \in SeqRange(targets) :
                 pred[0].table[t] =
                    [i \in Samples |->
                        distr_predict(distr, RowSum(i, saved_coefficients(target_index(t), i)))]

\* the column kinds of a table, read from its header
header_kinds(header) == [p \in DOMAIN header |-> header[p].pre]

expected_kinds ==
    <<"index", IF distr = "gaussian" THEN "residual" ELSE "prediction", "influence">>
      \o [j \in 1..n_features |-> "b_"] \o [j \in 1..n_features |-> "se_"]

\* C4: every per-target table written has as many header names as data columns,
\* in the order sample id, diagnostic, self-influence, one coefficient per
\* feature, one standard error per feature.
C4_TableColumns ==
    \A name \in DOMAIN files :
        name # pred_name =>
            /\ \A q \in DOMAIN files[name].rows :
                  Len(files[name].rows[q]) = Len(files[name].header)
            /\ header_kinds(files[name].header) = expected_kinds

C8_UnsampledGetNearestCoefficients ==
    (subsampled /\ pc # <<>> /\ pc[0] = "predict" /\ pred_name \notin DOMAIN files)
        => LET out == return_outputs(files, subsampled, neighboring_unsampled)
           IN  \A k \in DOMAIN targets :
                 LET map == neighboring_unsampled[targets[k]]
                     listed(i) == {key \in DOMAIN map : i \in SeqRange(map[key])}
                 IN  /\ \A i \in Samples \ SeqRange(sub[k]) :
                           /\ Cardinality(listed(i)) = 1
                           /\ \A key \in listed(i) :
                                 /\ key \in SeqRange(sub[k])
                                 /\ \A other \in SeqRange(sub[k]) :
                                       Dist2(coords[i], coords[key]) <= Dist2(coords[i], coords[other])
                     /\ \A i \in SeqRange(sub[k]) : listed(i) = {}
                     /\ result_path(targets[k]) \in DOMAIN files
                           => /\ out.status = "ok"
                              /\ targets[k] \in DOMAIN out.coeffs
                              /\ \A i \in Samples \ SeqRange(sub[k]) :
                                    \A key \in listed(i) :
                                       out.coeffs[targets[k]][i] = betas_of(k, key)
                              /\ \A i \in SeqRange(sub[k]) :
                                    out.coeffs[targets[k]][i] = betas_of(k, i)

\* C10: a final pass that fails for one target does not end fit() on that rank
\* before every target has had its final pass.
C10_FailureDoesNotStopFit ==
    ~bw_given =>
        \A r \in DOMAIN pc :
            pc[r] = "raised" => Len(finals[r]) = Len(targets)

C30_LabelRoundTrip ==
    \A k \in DOMAIN targets :
        result_path(targets[k]) \in DOMAIN files =>
            file_target(result_path(targets[k])) = targets[k]

\* C24: the bandwidth fit() hands to the final pass of a target and records
\* for it is the bandwidth find_optimal_bw returned, a bandwidth of the search
\* range whose score the search evaluated, in either bandwidth mode.
C24_FinalBandwidthIsTheOneReturned ==
    \A k \in DOMAIN searched :
        searched[k].done =>
            LET rng == search_range(bw_fixed)
                s == find_optimal_bw(rng[1], rng[2], scoreFn, bw_fixed)
            IN  /\ searched[k].bw = s.optimum_bw
                /\ searched[k].bw \in DOMAIN s.results_dict
                /\ rng[1] <= searched[k].bw
                /\ searched[k].bw <= rng[2]

-----------------------------------------------------------------------------
(* Claims about configuration (SpecConfig) *)

\* C12: with a distribution name other than gaussian, poisson or nb, every rank
\* is rejected when it is configured: no rank reaches data set-up or a local fit.
C12_InvalidDistrRejectedAtConfiguration ==
    distr \notin {"gaussian", "poisson", "nb"} =>
        \A r \in DOMAIN cst.pc : cst.pc[r] \in {"init", "config_raised"}

\* the run searches for the bandwidth and the range it would search is empty
bad_range ==
    /\ cst.pc # <<>>
    /\ ~bw_given
    /\ LET rng == set_search_range(conf.minbw, conf.maxbw, bw_fixed)
       IN  rng[1] >= rng[2]

\* C13: without a bandwidth and with minbw >= maxbw, no rank performs a scoring
\* pass or a local fit, and no rank stays blocked: every rank is either still
\* before the range or has failed with the configuration error.
C13_BadRangeFailsOnEveryRank ==
    bad_range =>
        \A r \in DOMAIN cst.pc : cst.pc[r] \in {"init", "set_up", "fit", "config_raised"}

\* C14: every weight vector the engine computes follows the configured
\* exclude_self: with the flag, the weight of sample i in its own vector is 0,
\* in the local fits and the metrics pass as in the initial weight matrix.
C14_ExcludeSelfGovernsEveryKernel ==
    \A c \in cst.wi_calls :
        /\ conf.exclude_self => c.self = 0
        /\ c.self = get_wi_self(conf.exclude_self)

-----------------------------------------------------------------------------
(* Claims about compute_aicc_linear (SpecAicc) *)

\* C16: for a fixed RSS > 0 and sample count, of two evaluations with
\* 0 <= trace_hat < N - 2 the one with the larger trace_hat has the strictly
\* larger value.
C16_AiccIncreasesWithTrace ==
    (aq.last.trace_hat # None /\ aq.last.trace_hat < aq.cur.trace_hat) =>
        aicc_less(aq.last.aicc, aq.cur.aicc)

\* two evaluations at the two ends of the range, for more than three samples
C16_Witness ==
    /\ aq.last.trace_hat # None
    /\ aq.n > 3
    /\ aq.last.trace_hat = 0
    /\ aq.cur.trace_hat = (aq.n - 2) * TGrid - 1

-----------------------------------------------------------------------------
(* Claims about multiscale_backfitting (SpecBackfit) *)

\* C11: once the bandwidth search of a feature has produced a NaN score in a
\* backfitting round, no further feature is updated and nothing is stored for
\* the target.
C11_NaNAbortsBackfitting ==
    blog.nan_seen => (blog.updates_after_nan = 0 /\ ~stored.done)

\* C15: no bandwidth search runs more than max_iter iterations and the round
\* loop runs at most max(200, max_iter) rounds (the floor is the bound
\* backfit_floor here); at the cap the loop ends with every round recorded, the
\* results of the target can be stored, and they are stored as for any other exit.
C15_CapsEndTheLoops ==
    /\ blog.search_iterations <= max_iter
    /\ bf.iter <= (IF backfit_floor >= max_iter THEN backfit_floor ELSE max_iter)
    /\ bphase = "cap" =>
          /\ bf.iter = n_iters
          /\ Len(bf.bw_history) = n_iters
          /\ ENABLED BackfitStore
    /\ stored.exit = "cap" =>
          /\ stored.done
          /\ bphase = "stored"
          /\ stored.bw_history = bf.bw_history
          /\ Len(stored.bw_history) = n_iters

\* a target stored after the round cap, with a search that ran to max_iter
C15_Witness ==
    /\ stored.done
    /\ stored.exit = "cap"
    /\ stored.rounds = n_iters
    /\ blog.search_iterations = max_iter

-----------------------------------------------------------------------------
(* Claims about a pass of mpi_fit *)

\* the least c with c * w >= n
ceil_div(n, w) == CHOOSE c \in 0..n : c * w >= n /\ \A b \in 0..(c - 1) : b * w < n

contiguous(q) == \A p \in 1..(Len(q) - 1) : q[p + 1] = q[p] + 1

chunk_assigned == {r \in Ranks : ps.at[r] # "start"}

\* C27: for every sample count N >= 1 and communicator size W >= 1 the chunks
\* of the ranks are contiguous index ranges of at most ceil(N/W) indices,
\* pairwise disjoint, and together they are exactly 0..N-1, so that in a pass
\* every sample is fitted by exactly one rank; a rank beyond the data has an
\* empty chunk
C27_ChunksPartitionTheSamples ==
    /\ \A r \in chunk_assigned :
          /\ contiguous(ps.chunk[r])
          /\ Len(ps.chunk[r]) <= ceil_div(ps.n, n_ranks)
          /\ SeqRange(ps.chunk[r]) \subseteq 0..(ps.n - 1)
    /\ \A r1, r2 \in chunk_assigned :
          r1 # r2 => SeqRange(ps.chunk[r1]) \cap SeqRange(ps.chunk[r2]) = {}
    /\ chunk_assigned = Ranks =>
          UNION {SeqRange(ps.chunk[r]) : r \in Ranks} = 0..(ps.n - 1)
    /\ (\A r \in Ranks : ps.buf[r].full) =>
          \A i \in 0..(ps.n - 1) :
              Cardinality({<<r, q>> \in Ranks \X (1..ps.n) :
                              /\ q \in DOMAIN ps.buf[r].rows
                              /\ ps.buf[r].rows[q][1].i = i}) = 1

\* every rank has fitted its chunk; one rank had two samples and one had none
C27_Witness ==
    /\ \A r \in Ranks : ps.buf[r].full
    /\ \E r \in Ranks : ps.chunk[r] = <<>>
    /\ \E r \in Ranks : Len(ps.chunk[r]) >= 2

\* the table of a final pass over samples 0..n-1: row k is the local fit of
\* sample k
table_by_sample(d, n) == [q \in 1..n |-> local_fit_row(d, 1, q - 1)]

\* C28: in a final-mode pass the table assembled on the coordinator has one row
\* per fitted sample and row k is the local fit of sample k, whatever the
\* number of ranks and also when a rank has an empty chunk; in multiscale mode
\* every rank ends the pass holding this table
C28_TableRowsInSampleOrder ==
    ps.final =>
        /\ ps.at[0] = "done" =>
              /\ Len(ps.table[0]) = ps.n
              /\ ps.table[0] = table_by_sample(distr, ps.n)
        /\ ps.multiscale =>
              \A r \in Ranks :
                  ps.at[r] = "done" => ps.table[r] = table_by_sample(distr, ps.n)

\* a multiscale final pass over three ranks, one of them without a sample, has
\* ended on every rank
C28_Witness ==
    /\ ps.final
    /\ ps.multiscale
    /\ n_ranks >= 3
    /\ \E r \in Ranks : ps.chunk[r] = <<>> /\ ps.at[r] = "done"
    /\ \A r \in Ranks : ps.at[r] = "done" /\ Len(ps.table[r]) = ps.n

-----------------------------------------------------------------------------
(* Claims about the input arrays *)

\* C25 (as stated): throughout a run, for every target and with or without
\* subsampling, the coordinate matrix, the predictor matrix and the sample
\* count of the model are what they were after setup; a subsampled target works
\* on subsets taken from the original arrays, so that every target is handed
\* the original inputs
C25_InputsAreNeverReassigned ==
    ms.stage # "idle" =>
        /\ ms.stage # "IndexError"
        /\ ms.coords = original_rows
        /\ ms.n_samples = n_samples
        /\ \A q \in DOMAIN ms.given :
              IF ms.given[q].to = "fit"
              THEN ms.given[q].X = original_rows
              ELSE /\ ms.given[q].X = take(original_rows, ms.indices[ms.given[q].k])
                   /\ ms.given[q].coords = take(original_rows, ms.indices[ms.given[q].k])

-----------------------------------------------------------------------------
(* Claims about the arithmetic of backfitting *)

\* the contribution of feature j that is current: the new one when the feature
\* has been updated in the round, the previous round's otherwise
current_contribution(j) ==
    IF j <= Len(rs.new_ys) THEN rs.new_ys[j] ELSE rs.y_pred_init[j]

\* C21: for the Gaussian family, after every single-feature update of every
\* round the running residual plus the sum of the current per-feature
\* contributions equals the observed response, and updating a feature changes
\* the residual by exactly its old contribution minus its new contribution
C21_ResidualAccountsForTheResponse ==
    rs.stage \in {"features", "round_end", "done"} =>
        /\ rs.error + SeqSum([j \in 1..n_features |-> current_contribution(j)]) = rs.y
        /\ (rs.stage # "done" /\ rs.new_ys # <<>>) =>
              rs.error = rs.last.before + rs.last.old - rs.last.new

\* in the third round a feature has just been given a contribution different
\* from the one it had, and the residual is not zero
C21_Witness ==
    /\ rs.stage = "features"
    /\ rs.iter = 3
    /\ rs.new_ys # <<>>
    /\ rs.last.old # rs.last.new
    /\ rs.error # 0

-----------------------------------------------------------------------------
(* Claims about the end of backfitting *)

\* C22 (as stated): when backfitting ends for a target, by convergence, by the
\* local-minimum rollback or by the round cap, the stored coefficient matrix,
\* the stored predictions, the stored residuals and the last entry of the
\* stored bandwidth history all belong to one and the same round
C22_StoredResultsOfOneRound ==
    stored.done =>
        /\ stored.params = stored.predictions
        /\ stored.errors = stored.predictions
        /\ Len(stored.bw_history) = stored.predictions

\* a round has just ended: the loop has left, or the first feature of the next
\* round is about to be updated
round_just_ended ==
    \/ bphase \in {"converged", "local_minimum", "cap"}
    \/ bphase = "features" /\ bf.n_feat = 1 /\ bf.iter > 1

\* the round that ended last; score_history has one entry per round
ended_round == Len(bf.score_history)

\* the round did not converge and the score of the round before it is no higher
\* than the score two rounds back and than its own
previous_round_lowest ==
    LET sh == bf.score_history
        r == ended_round
    IN  /\ r >= 3
        /\ ~(sh[r] < tolerance)
        /\ sh[r - 1] <= sh[r - 2]
        /\ sh[r - 1] <= sh[r]

\* C23: from the third round on, a round that has not converged and whose
\* previous round has a score no higher than the score two rounds back and the
\* current score stops backfitting, keeps the predictions, the residual and the
\* bandwidth history of the previous round and drops its own history entry; in
\* every other non-converged round the predictions of the round become the
\* starting values of the next round
C23_LocalMinimumRollsBackOneRound ==
    round_just_ended =>
        LET sh == bf.score_history
            r == ended_round
        IN  IF previous_round_lowest
            THEN /\ bphase = "local_minimum"
                 /\ bf.iter = r
                 /\ bf.new_ys = r - 1
                 /\ bf.error = r - 1
                 /\ Len(bf.bw_history) = r - 1
                 /\ bf.bw_history[r - 1] = blog.cur.before
                 /\ \A q \in (r - 2)..r : sh[r - 1] <= sh[q]
            ELSE /\ bphase # "local_minimum"
                 /\ ~(sh[r] < tolerance) =>
                       /\ bf.y_pred_init = r
                       /\ bf.new_ys = r
                       /\ Len(bf.bw_history) = r
                       /\ bphase = "features" => bf.iter = r + 1

\* the fourth round rolled back to the third, which had gone on from the second
C23_Witness ==
    /\ bphase = "local_minimum"
    /\ bf.iter = 4
    /\ bf.new_ys = 3
    /\ bf.score_history[3] < bf.score_history[2]

=============================================================================
